---- MODULE Spec2Model ----
(***************************************************************************)
(* Model of the transpiler's JSON Schema builder (modules/jsonSchema.ts)   *)
(* and of its type classifier (types.ts).                                  *)
(*                                                                         *)
(* Both files hold pure functions only.  The state machine records the     *)
(* last call: which function was called, with which argument, and what it  *)
(* returned or threw.                                                      *)
(*                                                                         *)
(* Encoding of JavaScript values:                                          *)
(*   undefined            [undef |-> TRUE]                                 *)
(*   a string literal     [str |-> "a"]                                    *)
(*   a number literal     [num |-> 1]                                      *)
(*   a boolean literal    [bool |-> TRUE]                                  *)
(*   an array, where the static type also admits a non-array               *)
(*                        [arr |-> <<...>>]                                *)
(*   an object            a function from its keys to its values           *)
(* Fields whose static type is a plain string, boolean or string[] hold    *)
(* the TLA+ string, boolean or sequence directly.  A bitset of flags is    *)
(* the set of the names of the bits that are set, so that                  *)
(* Boolean(flags & F) is F \in flags.                                      *)
(***************************************************************************)
EXTENDS Integers, Sequences, FiniteSets, TLC

VARIABLES call, args, result

vars == <<call, args, result>>

---------------------------------------------------------------------------
(* Bounds *)

MaxItems == 3      \* longest tuple / enum passed to the builder
MaxMembers == 3    \* longest member list passed to buildObject
MaxTypes == 3      \* longest constituent list passed to isUnionBoolean
MaxFlags == 3      \* most bits set at once in a node's flags

---------------------------------------------------------------------------
(* JavaScript values *)

Undefined == [undef |-> TRUE]
Str(s) == [str |-> s]
Num(n) == [num |-> n]
Bool(b) == [bool |-> b]
Arr(s) == [arr |-> s]
EmptyObject == [k \in {} |-> k]

Put(obj, k, v) == [x \in (DOMAIN obj) \cup {k} |-> IF x = k THEN v ELSE obj[x]]
Delete(obj, k) == [x \in (DOMAIN obj) \ {k} |-> obj[x]]

Return(v) == [ret |-> v]
Throw(parts) == [threw |-> parts]

SeqsUpTo(S, n) == UNION {[1..k -> S] : k \in 0..n}

---------------------------------------------------------------------------
(* modules/jsonSchema.ts *)

buildLiteral(literal) == Return(literal)

\* Mutant: 'any' described by a type keyword instead of the empty fragment.
buildAnyTyped == Return([type |-> "any"])

buildAny == Return(EmptyObject)

\* Mutant: both branches of the allOf accept strings.
neverTypeSatisfiable ==
    [description |-> "This is a never type",
     allOf |-> <<[type |-> "string"], [type |-> "string"]>>]

\* The fragment returned for 'never'.
neverType ==
    [description |-> "This is a never type",
     allOf |-> <<[type |-> "string"], [type |-> "number"]>>]

buildPrimitive(type) ==
    CASE type = "any" -> buildAny
      [] type = "void" -> Return([type |-> "undefined"])
      [] type = "null" -> Return([type |-> "null"])
      [] type = "undefined" -> Return([type |-> "undefined"])
      [] type = "never" -> Return(neverType)
      [] type = "string" -> Return([type |-> "string"])
      [] type = "number" -> Return([type |-> "number"])
      [] type = "boolean" -> Return([type |-> "boolean"])
      [] OTHER -> Throw(<<"Unsupported type please open an issue on github">>)

\* Mutant: the element fragment wrapped in a one-element list.
buildArrayWrapped(resolvedType) ==
    Return([type |-> "array", items |-> Arr(<<resolvedType>>)])

buildArray(resolvedType) == Return([type |-> "array", items |-> resolvedType])

buildTuple(resolvedTypes) == Return([type |-> "array", items |-> Arr(resolvedTypes)])

\* Mutant: the literals in reverse declaration order.
buildEnumReversed(resolvedEnum) ==
    Return([enum |-> [i \in 1..Len(resolvedEnum) |->
                        resolvedEnum[Len(resolvedEnum) + 1 - i][2]]])

buildEnum(resolvedEnum) ==
    Return([enum |-> [i \in 1..Len(resolvedEnum) |-> resolvedEnum[i][2]]])

\* Mutant: every member is pushed to required, optional or not.
buildObjectStepAllRequired(schema, member) ==
    LET pushed == [schema EXCEPT !.required = Append(@, member.name)]
    IN  [pushed EXCEPT !.properties = Put(@, member.name, member.resolvedType)]

\* One iteration of the forEach callback of buildObject.
buildObjectStep(schema, member) ==
    LET pushed == IF ~member.isOptional
                  THEN [schema EXCEPT !.required = Append(@, member.name)]
                  ELSE schema
    IN  [pushed EXCEPT !.properties = Put(@, member.name, member.resolvedType)]

RECURSIVE buildObjectLoop(_, _, _)
buildObjectLoop(schema, properties, i) ==
    IF i > Len(properties)
    THEN schema
    ELSE buildObjectLoop(buildObjectStep(schema, properties[i]), properties, i + 1)

\* Mutant: an empty required list is left in the fragment.
buildObjectKeepRequired(properties) ==
    LET initial == [additionalProperties |-> FALSE,
                    properties |-> EmptyObject,
                    required |-> <<>>,
                    type |-> "object"]
    IN  Return(buildObjectLoop(initial, properties, 1))

buildObject(properties) ==
    LET initial == [additionalProperties |-> FALSE,
                    properties |-> EmptyObject,
                    required |-> <<>>,
                    type |-> "object"]
        schema == buildObjectLoop(initial, properties, 1)
    IN  Return(IF Len(schema.required) = 0 THEN Delete(schema, "required") ELSE schema)

buildIndexableObject(resolvedType) ==
    Return([additionalProperties |-> FALSE,
            patternProperties |-> Put(EmptyObject, ".*", resolvedType),
            properties |-> EmptyObject,
            type |-> "object"])

---------------------------------------------------------------------------
(* types.ts *)

isLiteral(type) ==
    \/ "StringLiteral" \in type.flags
    \/ "NumberLiteral" \in type.flags
    \/ "BooleanLiteral" \in type.flags

isBigIntLiteral(type) == "BigIntLiteral" \in type.flags

isPrimitive(type) ==
    \/ "Any" \in type.flags
    \/ "String" \in type.flags
    \/ "Number" \in type.flags
    \/ "BigInt" \in type.flags
    \/ "Boolean" \in type.flags
    \/ "Void" \in type.flags
    \/ "Undefined" \in type.flags
    \/ "Null" \in type.flags
    \/ "Never" \in type.flags

isDefined(type) == ~("Undefined" \in type.flags)

isLiteralTrue(type) == type.value = Undefined /\ type.intrinsicName = Str("true")

isLiteralFalse(type) == type.value = Undefined /\ type.intrinsicName = Str("false")

\* Mutant: only the order true, false is recognised.
isUnionBooleanOrdered(types) ==
    IF Len(types) # 2 THEN FALSE
    ELSE LET typeA == types[1]
             typeB == types[2]
         IN  IF ~isLiteral(typeA) \/ ~isLiteral(typeB) THEN FALSE
             ELSE isLiteralTrue(typeA) /\ isLiteralFalse(typeB)

isUnionBoolean(types) ==
    IF Len(types) # 2 THEN FALSE
    ELSE LET typeA == types[1]
             typeB == types[2]
         IN  IF ~isLiteral(typeA) \/ ~isLiteral(typeB) THEN FALSE
             ELSE \/ (isLiteralTrue(typeA) /\ isLiteralFalse(typeB))
                  \/ (isLiteralTrue(typeB) /\ isLiteralFalse(typeA))

isObject(type) == "Object" \in type.flags

isReference(type) == "Reference" \in type.objectFlags

isArray(type) ==
    /\ isObject(type)
    /\ isReference(type)
    /\ (type.symbol # Undefined /\ type.symbol.escapedName = "Array")

isTuple(type) ==
    /\ isObject(type)
    /\ isReference(type)
    /\ "Tuple" \in type.target.objectFlags

\* Mutant: the Union bit is not required.
isEnumAnyLiteral(type) == "EnumLiteral" \in type.flags

isEnum(type) == "EnumLiteral" \in type.flags /\ "Union" \in type.flags

isUndefined(type) == "Undefined" \in type.flags

isGenericType(type) == "TypeParameter" \in type.flags

isUnion(type) == "Union" \in type.flags

isIntersection(type) == "Intersection" \in type.flags

\* The verdict of every predicate over a type on one node.
classify(type) ==
    [isLiteral |-> isLiteral(type),
     isBigIntLiteral |-> isBigIntLiteral(type),
     isPrimitive |-> isPrimitive(type),
     isDefined |-> isDefined(type),
     isUndefined |-> isUndefined(type),
     isObject |-> isObject(type),
     isReference |-> isReference(type),
     isArray |-> isArray(type),
     isTuple |-> isTuple(type),
     isEnum |-> isEnum(type),
     isGenericType |-> isGenericType(type),
     isUnion |-> isUnion(type),
     isIntersection |-> isIntersection(type)]

---------------------------------------------------------------------------
(* Inputs of the classifier *)

\* The bits of ts.TypeFlags that types.ts tests.
LiteralBits == {"StringLiteral", "NumberLiteral", "BooleanLiteral"}

PrimitiveBits ==
    {"Any", "String", "Number", "BigInt", "Boolean", "Void", "Undefined", "Null", "Never"}

TypeFlags ==
    LiteralBits \cup PrimitiveBits \cup
    {"BigIntLiteral", "EnumLiteral", "TypeParameter", "Object", "Union", "Intersection"}

RECURSIVE FlagSetsUpTo(_)
FlagSetsUpTo(n) ==
    IF n = 0 THEN {{}}
    ELSE LET smaller == FlagSetsUpTo(n - 1)
         IN  smaller \cup {f \cup {b} : f \in smaller, b \in TypeFlags}

FlagSets == FlagSetsUpTo(MaxFlags)

Symbols == {Undefined, [escapedName |-> "Array"], [escapedName |-> "Foo"]}

Targets == {[objectFlags |-> {}], [objectFlags |-> {"Tuple"}]}

Nodes ==
    [flags : FlagSets, objectFlags : {{}, {"Reference"}}, symbol : Symbols,
     target : Targets, value : {Undefined}, intrinsicName : {Undefined}]

\* Constituents of a union: literal and non-literal nodes, with and without
\* a concrete value, with and without the intrinsic name of true / false.
Constituents ==
    [flags : {{}, {"BooleanLiteral"}, {"StringLiteral"}},
     objectFlags : {{}}, symbol : {Undefined}, target : {Undefined},
     value : {Undefined, Str("a")},
     intrinsicName : {Undefined, Str("true"), Str("false")}]

---------------------------------------------------------------------------
(* Inputs of the builder *)

Literals == {Num(1), Num(2), Str("a"), Bool(TRUE)}

Fragments == {[type |-> "string"], [type |-> "number"], EmptyObject, Num(1)}

PrimitiveTags ==
    {"any", "void", "null", "undefined", "never", "string", "number", "boolean",
     "bigint", "symbol", "unknown"}

EnumNames == {"A", "B"}

MemberNames == {"a", "b", "c"}

MemberFragments == {[type |-> "string"], [type |-> "number"]}

Members == [isOptional : BOOLEAN, name : MemberNames, resolvedType : MemberFragments]

---------------------------------------------------------------------------
(* The state machine: one action per exported function.  The functions   *)
(* are pure and share no state, so a call starts from the idle state and  *)
(* Done returns to it.                                                    *)

Init ==
    /\ call = "none"
    /\ args = Undefined
    /\ result = Undefined

CallBuildLiteral ==
    /\ call = "none"
    /\ \E literal \in Literals :
           /\ call' = "buildLiteral"
           /\ args' = literal
           /\ result' = buildLiteral(literal)

CallBuildAny ==
    /\ call = "none"
    /\ call' = "buildAny"
    /\ args' = Undefined
    /\ result' = buildAny

CallBuildPrimitive ==
    /\ call = "none"
    /\ \E type \in PrimitiveTags :
           /\ call' = "buildPrimitive"
           /\ args' = type
           /\ result' = buildPrimitive(type)

CallBuildArray ==
    /\ call = "none"
    /\ \E resolvedType \in Fragments :
           /\ call' = "buildArray"
           /\ args' = resolvedType
           /\ result' = buildArray(resolvedType)

CallBuildTuple ==
    /\ call = "none"
    /\ \E resolvedTypes \in SeqsUpTo(Fragments, MaxItems) :
           /\ call' = "buildTuple"
           /\ args' = resolvedTypes
           /\ result' = buildTuple(resolvedTypes)

CallBuildEnum ==
    /\ call = "none"
    /\ \E resolvedEnum \in SeqsUpTo(EnumNames \X Literals, MaxItems) :
           /\ call' = "buildEnum"
           /\ args' = resolvedEnum
           /\ result' = buildEnum(resolvedEnum)

CallBuildObject ==
    /\ call = "none"
    /\ \E properties \in SeqsUpTo(Members, MaxMembers) :
           /\ call' = "buildObject"
           /\ args' = properties
           /\ result' = buildObject(properties)

CallBuildIndexableObject ==
    /\ call = "none"
    /\ \E resolvedType \in Fragments :
           /\ call' = "buildIndexableObject"
           /\ args' = resolvedType
           /\ result' = buildIndexableObject(resolvedType)

CallIsUnionBoolean ==
    /\ call = "none"
    /\ \E types \in SeqsUpTo(Constituents, MaxTypes) :
           /\ call' = "isUnionBoolean"
           /\ args' = types
           /\ result' = Return(isUnionBoolean(types))

CallClassify ==
    /\ call = "none"
    /\ \E type \in Nodes :
           /\ call' = "classify"
           /\ args' = type
           /\ result' = Return(classify(type))

Done ==
    /\ call # "none"
    /\ call' = "none"
    /\ args' = Undefined
    /\ result' = Undefined

Next ==
    \/ CallBuildLiteral
    \/ CallBuildAny
    \/ CallBuildPrimitive
    \/ CallBuildArray
    \/ CallBuildTuple
    \/ CallBuildEnum
    \/ CallBuildObject
    \/ CallBuildIndexableObject
    \/ CallIsUnionBoolean
    \/ CallClassify
    \/ Done

Spec == Init /\ [][Next]_vars

---------------------------------------------------------------------------
(* Vocabulary of the properties *)

Returned == "ret" \in DOMAIN result
Threw == "threw" \in DOMAIN result

MappedTags == {"any", "void", "null", "undefined", "never", "string", "number", "boolean"}

\* The required list of a fragment, an absent key read as the empty list.
RequiredOf(fragment) ==
    IF "required" \in DOMAIN fragment THEN fragment.required ELSE <<>>

DistinctNames(properties) ==
    \A i, j \in 1..Len(properties) : properties[i].name = properties[j].name => i = j

RECURSIVE RequiredNames(_)
RequiredNames(properties) ==
    IF properties = <<>> THEN <<>>
    ELSE IF Head(properties).isOptional
         THEN RequiredNames(Tail(properties))
         ELSE <<Head(properties).name>> \o RequiredNames(Tail(properties))

Reverse(s) == [i \in 1..Len(s) |-> s[Len(s) + 1 - i]]

\* JSON values, one or two of each JSON type.
Null == [null |-> TRUE]

JsonValues ==
    {Str(""), Str("a"), Num(0), Num(1), Bool(TRUE), Bool(FALSE), Null,
     Arr(<<>>), Arr(<<Num(1)>>), EmptyObject, Put(EmptyObject, "a", Num(1))}

JsonTypeOf(v) ==
    CASE "str" \in DOMAIN v -> "string"
      [] "num" \in DOMAIN v -> "number"
      [] "bool" \in DOMAIN v -> "boolean"
      [] "null" \in DOMAIN v -> "null"
      [] "arr" \in DOMAIN v -> "array"
      [] OTHER -> "object"

\* JSON Schema validation restricted to the keywords type and allOf.
RECURSIVE Validates(_, _)
Validates(v, schema) ==
    /\ "type" \in DOMAIN schema => JsonTypeOf(v) = schema.type
    /\ "allOf" \in DOMAIN schema =>
          \A i \in 1..Len(schema.allOf) : Validates(v, schema.allOf[i])

ShapePredicates ==
    {"isLiteral", "isPrimitive", "isEnum", "isUnion", "isIntersection",
     "isGenericType", "isObject"}

Satisfied(verdicts) == {p \in ShapePredicates : verdicts[p]}

\* The groups of flag bits, one per predicate that tests flags on its own.
ShapeGroups ==
    {LiteralBits, PrimitiveBits, {"Object"}, {"Union"}, {"Intersection"}, {"TypeParameter"}}

GroupsTouched(flags) == {g \in ShapeGroups : g \cap flags # {}}

---------------------------------------------------------------------------
(* Properties *)

\* C1: buildPrimitive is a fixed mapping on the kind tag: 'any' yields the
\* empty fragment, 'void' and 'undefined' yield {type:'undefined'}, 'null'
\* yields {type:'null'}, and 'string', 'number', 'boolean' yield {type: tag},
\* with no other field.
C1_PrimitiveMapping ==
    (call = "buildPrimitive" /\ args \in MappedTags \ {"never"}) =>
        /\ Returned
        /\ args = "any" => result.ret = EmptyObject /\ DOMAIN result.ret = {}
        /\ args \in {"void", "undefined"} => result.ret = [type |-> "undefined"]
        /\ args = "null" => result.ret = [type |-> "null"]
        /\ args \in {"string", "number", "boolean"} => result.ret = [type |-> args]
        /\ args # "any" => DOMAIN result.ret = {"type"}

C1_Witness ==
    call = "buildPrimitive" /\ args = "any" /\ result = Return(EmptyObject)

\* C2: for members with pairwise distinct names, buildObject returns a
\* fragment of type 'object' with additionalProperties false, whose
\* properties have exactly one key per member, holding that member's
\* fragment, and whose required list is the names of the non-optional
\* members in input order.
C2_ObjectShape ==
    (call = "buildObject" /\ DistinctNames(args)) =>
        /\ Returned
        /\ result.ret.type = "object"
        /\ result.ret.additionalProperties = FALSE
        /\ DOMAIN result.ret \subseteq {"type", "additionalProperties", "properties", "required"}
        /\ DOMAIN result.ret.properties = {args[i].name : i \in 1..Len(args)}
        /\ Cardinality(DOMAIN result.ret.properties) = Len(args)
        /\ \A i \in 1..Len(args) : result.ret.properties[args[i].name] = args[i].resolvedType
        /\ RequiredOf(result.ret) = RequiredNames(args)
        /\ \A i \in 1..Len(RequiredOf(result.ret)) :
              RequiredOf(result.ret)[i] \in DOMAIN result.ret.properties

C2_Witness ==
    /\ call = "buildObject"
    /\ Len(args) = 3
    /\ DistinctNames(args)
    /\ args[1].isOptional /\ ~args[2].isOptional /\ ~args[3].isOptional
    /\ result.ret.required = <<args[2].name, args[3].name>>

\* C3: the fragment of buildObject has no 'required' key exactly when no
\* member is non-optional; 'required' is never an empty list.
C3_RequiredOmission ==
    call = "buildObject" =>
        /\ Returned
        /\ ("required" \notin DOMAIN result.ret) <=>
              (\A i \in 1..Len(args) : args[i].isOptional)
        /\ "required" \in DOMAIN result.ret => Len(result.ret.required) > 0

C3_Witness ==
    /\ call = "buildObject"
    /\ Len(args) = 2
    /\ \A i \in 1..Len(args) : args[i].isOptional
    /\ "required" \notin DOMAIN result.ret

\* C4: buildPrimitive('never') yields exactly {description:'This is a never
\* type', allOf:[{type:'string'},{type:'number'}]}, and no JSON value
\* validates against it.
C4_NeverEncoding ==
    (call = "buildPrimitive" /\ args = "never") =>
        /\ result = Return([description |-> "This is a never type",
                            allOf |-> <<[type |-> "string"], [type |-> "number"]>>])
        /\ \A v \in JsonValues : ~Validates(v, result.ret)

C4_Witness ==
    /\ call = "buildPrimitive"
    /\ args = "never"
    /\ Returned
    /\ Len(result.ret.allOf) = 2
    /\ Validates(Str("a"), result.ret.allOf[1])
    /\ Validates(Num(1), result.ret.allOf[2])

\* C5: isUnionBoolean returns true exactly for a list of two literals of
\* which one is the synthetic true and the other the synthetic false, in
\* either order, and it answers the same for the reversed list.
C5_UnionBoolean ==
    call = "isUnionBoolean" =>
        /\ result.ret <=>
              /\ Len(args) = 2
              /\ isLiteral(args[1]) /\ isLiteral(args[2])
              /\ \E i, j \in 1..2 :
                    /\ i # j
                    /\ args[i].value = Undefined /\ args[i].intrinsicName = Str("true")
                    /\ args[j].value = Undefined /\ args[j].intrinsicName = Str("false")
        /\ result.ret = isUnionBoolean(Reverse(args))

C5_Witness ==
    /\ call = "isUnionBoolean"
    /\ result = Return(TRUE)
    /\ args[1].intrinsicName = Str("false")
    /\ args[2].intrinsicName = Str("true")

\* C6: buildEnum returns {enum: L} and nothing else, where L has the length
\* of the input and L[i] is the literal of the i-th pair.
C6_EnumFidelity ==
    call = "buildEnum" =>
        /\ Returned
        /\ DOMAIN result.ret = {"enum"}
        /\ Len(result.ret.enum) = Len(args)
        /\ \A i \in 1..Len(args) : result.ret.enum[i] = args[i][2]

C6_Witness ==
    /\ call = "buildEnum"
    /\ Len(args) = 3
    /\ args[1][2] = args[3][2]
    /\ args[1][2] # args[2][2]
    /\ result.ret.enum = <<args[1][2], args[2][2], args[1][2]>>

\* C7: buildArray(f) has type 'array' and f itself as items; buildTuple(fs)
\* has type 'array' and the list fs as items; a one-element tuple never
\* yields the fragment of the array of its element.
C7_ArrayVsTuple ==
    /\ call = "buildArray" =>
          /\ Returned
          /\ DOMAIN result.ret = {"type", "items"}
          /\ result.ret.type = "array"
          /\ result.ret.items = args
          /\ result # buildTuple(<<args>>)
    /\ call = "buildTuple" =>
          /\ Returned
          /\ DOMAIN result.ret = {"type", "items"}
          /\ result.ret.type = "array"
          /\ result.ret.items = Arr(args)
          /\ Len(result.ret.items.arr) = Len(args)
          /\ Len(args) = 1 => result # buildArray(args[1])

C7_Witness ==
    /\ call = "buildTuple"
    /\ Len(args) = 1
    /\ result.ret.items = Arr(<<args[1]>>)
    /\ buildArray(args[1]).ret.items = args[1]

\* C8: a kind with no mapping makes buildPrimitive fail with an error that
\* reports the offending kind name.
C8_UnsupportedNamesKind ==
    (call = "buildPrimitive" /\ args \notin MappedTags) =>
        /\ Threw
        /\ \E i \in 1..Len(result.threw) : result.threw[i] = args

\* C9: isArray and isTuple are never both true, and each implies that the
\* node is an object and a reference.
C9_ArrayTupleExclusive ==
    call = "classify" =>
        /\ ~(result.ret.isArray /\ result.ret.isTuple)
        /\ result.ret.isArray => result.ret.isObject /\ result.ret.isReference
        /\ result.ret.isTuple => result.ret.isObject /\ result.ret.isReference

\* C10 as stated: every node satisfies exactly one of isLiteral, isPrimitive,
\* isEnum, isUnion, isIntersection, isGenericType, isObject.
C10_ExactlyOne ==
    call = "classify" => Cardinality(Satisfied(result.ret)) = 1

\* C10 as amended: a node whose flags touch exactly one of the groups
\* literal, primitive, Object, Union, Intersection, TypeParameter, and do not
\* hold both EnumLiteral and Union, satisfies exactly one of the predicates;
\* a node touching no group satisfies none; isEnum implies isUnion.
C10_ExactlyOneOnSingleGroup ==
    call = "classify" =>
        /\ (/\ Cardinality(GroupsTouched(args.flags)) = 1
            /\ ~({"EnumLiteral", "Union"} \subseteq args.flags))
              => Cardinality(Satisfied(result.ret)) = 1
        /\ GroupsTouched(args.flags) = {} => Satisfied(result.ret) = {}
        /\ result.ret.isEnum => result.ret.isUnion

C10_Witness ==
    /\ call = "classify"
    /\ args.flags = {"EnumLiteral", "NumberLiteral"}
    /\ Satisfied(result.ret) = {"isLiteral"}

====
